---- MODULE Spec2Model ----
(***************************************************************************)
(* Model of package/calculations.py and package/models.py:                 *)
(* MaterialCalculator, RoomCalculator, Material and CalculationResult.     *)
(*                                                                         *)
(* Numbers given by the caller are Python ints.  calculate() turns them    *)
(* into floats (`/ 100`, `/ unit_coverage`), so the module carries a model *)
(* of IEEE-754 binary64 arithmetic (round to nearest, ties to even) built  *)
(* on multi-limb naturals.                                                 *)
(***************************************************************************)
EXTENDS Integers, Sequences, FiniteSets, TLC

(***************************************************************************)
(* Multi-limb naturals: little-endian sequences of limbs in 0..Base-1,     *)
(* without leading (most significant) zero limbs; <<>> is zero.            *)
(***************************************************************************)
LimbBits == 13
Base == 8192
MantissaBits == 53

RECURSIVE Pow2(_)
Pow2(n) == IF n = 0 THEN 1 ELSE 2 * Pow2(n - 1)

RECURSIVE NatBitLen(_)
NatBitLen(n) == IF n = 0 THEN 0 ELSE 1 + NatBitLen(n \div 2)

RECURSIVE BigNorm(_)
BigNorm(s) ==
    IF s = <<>> THEN <<>>
    ELSE IF s[Len(s)] = 0 THEN BigNorm(SubSeq(s, 1, Len(s) - 1))
    ELSE s

RECURSIVE BigFromNat(_)
BigFromNat(n) ==
    IF n = 0 THEN <<>> ELSE <<n % Base>> \o BigFromNat(n \div Base)

RECURSIVE BigToNat(_)
BigToNat(s) ==
    IF s = <<>> THEN 0 ELSE s[1] + Base * BigToNat(Tail(s))

BigBitLen(s) ==
    IF s = <<>> THEN 0 ELSE LimbBits * (Len(s) - 1) + NatBitLen(s[Len(s)])

BigIsOdd(s) == s # <<>> /\ s[1] % 2 = 1

RECURSIVE BigMulCarry(_, _, _)
BigMulCarry(s, k, carry) ==
    IF s = <<>> THEN BigFromNat(carry)
    ELSE LET p == s[1] * k + carry
         IN  <<p % Base>> \o BigMulCarry(Tail(s), k, p \div Base)

\* s * k for a small natural k
BigMulSmall(s, k) == BigNorm(BigMulCarry(s, k, 0))

RECURSIVE BigDivRem(_, _, _)
\* long division from the most significant limb; i is the limb in hand
BigDivRem(s, d, i) ==
    IF i > Len(s) THEN [q |-> <<>>, r |-> 0]
    ELSE LET hi  == BigDivRem(s, d, i + 1)
             cur == hi.r * Base + s[i]
         IN  [q |-> <<cur \div d>> \o hi.q, r |-> cur % d]

\* quotient and remainder of s by a small natural d > 0
BigDivSmall(s, d) ==
    LET x == BigDivRem(s, d, 1) IN [q |-> BigNorm(x.q), r |-> x.r]

RECURSIVE BigAddCarry(_, _, _)
BigAddCarry(s, t, carry) ==
    IF s = <<>> /\ t = <<>> THEN BigFromNat(carry)
    ELSE LET a == IF s = <<>> THEN 0 ELSE s[1]
             b == IF t = <<>> THEN 0 ELSE t[1]
             x == a + b + carry
         IN  <<x % Base>> \o
             BigAddCarry(IF s = <<>> THEN <<>> ELSE Tail(s),
                         IF t = <<>> THEN <<>> ELSE Tail(t), x \div Base)

BigAdd(s, t) == BigNorm(BigAddCarry(s, t, 0))

RECURSIVE BigSubBorrow(_, _, _)
\* s - t for s >= t
BigSubBorrow(s, t, borrow) ==
    IF s = <<>> THEN <<>>
    ELSE LET b == IF t = <<>> THEN 0 ELSE t[1]
             x == s[1] - b - borrow
         IN  <<IF x < 0 THEN x + Base ELSE x>> \o
             BigSubBorrow(Tail(s), IF t = <<>> THEN <<>> ELSE Tail(t),
                          IF x < 0 THEN 1 ELSE 0)

BigSub(s, t) == BigNorm(BigSubBorrow(s, t, 0))

RECURSIVE BigLessFrom(_, _, _)
BigLessFrom(s, t, i) ==
    IF i = 0 THEN FALSE
    ELSE IF s[i] # t[i] THEN s[i] < t[i]
    ELSE BigLessFrom(s, t, i - 1)

BigLess(s, t) ==
    IF Len(s) # Len(t) THEN Len(s) < Len(t) ELSE BigLessFrom(s, t, Len(s))

RECURSIVE BigShiftLeft(_, _)
BigShiftLeft(s, n) ==
    IF s = <<>> \/ n = 0 THEN s
    ELSE IF n >= LimbBits THEN <<0>> \o BigShiftLeft(s, n - LimbBits)
    ELSE BigMulSmall(s, Pow2(n))

RECURSIVE BigShiftRight(_, _, _, _)
\* s shifted right by n bits; guard is the last bit shifted out, sticky says
\* whether anything below the guard was non-zero
BigShiftRight(s, n, guard, sticky) ==
    IF n = 0 \/ s = <<>>
    THEN [q |-> s, guard |-> IF n = 0 THEN guard ELSE FALSE,
          sticky |-> IF n = 0 THEN sticky ELSE sticky \/ guard]
    ELSE IF n >= LimbBits
    THEN BigShiftRight(Tail(s), n - LimbBits, s[1] >= Base \div 2,
                       sticky \/ guard \/ s[1] % (Base \div 2) # 0)
    ELSE LET h == BigDivSmall(s, Pow2(n))
         IN  [q |-> h.q, guard |-> h.r >= Pow2(n - 1),
              sticky |-> sticky \/ guard \/ h.r % Pow2(n - 1) # 0]

(***************************************************************************)
(* binary64 values: (-1)^neg * m * 2^e with m a multi-limb natural of at   *)
(* most MantissaBits bits.  Every operation computes the exact result and  *)
(* rounds it once, to nearest with ties to even, as CPython's float does.  *)
(* Exponent overflow and subnormals are outside the modelled range.        *)
(***************************************************************************)
Abs(n) == IF n < 0 THEN -n ELSE n

FloatZero == [neg |-> FALSE, m |-> <<>>, e |-> 0]

\* value m * 2^e (plus something below the last bit when sticky) rounded
FloatRound(neg, m, e, sticky) ==
    LET bl == BigBitLen(m)
    IN  IF bl <= MantissaBits THEN [neg |-> neg, m |-> m, e |-> e]
        ELSE LET sh == BigShiftRight(m, bl - MantissaBits, FALSE, sticky)
                 up == sh.guard /\ (sh.sticky \/ BigIsOdd(sh.q))
             IN  [neg |-> neg,
                  m   |-> IF up THEN BigAdd(sh.q, <<1>>) ELSE sh.q,
                  e   |-> e + (bl - MantissaBits)]

\* float(n) for a small int n (exact)
FloatFromInt(n) == [neg |-> n < 0, m |-> BigFromNat(Abs(n)), e |-> 0]

\* x / d for a float x and a small non-zero int d
FloatDivInt(x, d) ==
    IF x.m = <<>> THEN FloatZero
    ELSE LET n  == BigShiftLeft(x.m, 6 * LimbBits)
             qr == BigDivSmall(n, Abs(d))
         IN  FloatRound(x.neg # (d < 0), qr.q, x.e - 6 * LimbBits, qr.r # 0)

\* a * x for a small int a and a float x
FloatMulInt(a, x) ==
    IF a = 0 \/ x.m = <<>> THEN FloatZero
    ELSE FloatRound(x.neg # (a < 0), BigMulSmall(x.m, Abs(a)), x.e, FALSE)

FloatAdd(x, y) ==
    IF x.m = <<>> THEN y
    ELSE IF y.m = <<>> THEN x
    ELSE LET e  == IF x.e < y.e THEN x.e ELSE y.e
             xm == BigShiftLeft(x.m, x.e - e)
             ym == BigShiftLeft(y.m, y.e - e)
         IN  IF x.neg = y.neg THEN FloatRound(x.neg, BigAdd(xm, ym), e, FALSE)
             ELSE IF xm = ym THEN FloatZero
             ELSE IF BigLess(xm, ym)
                  THEN FloatRound(y.neg, BigSub(ym, xm), e, FALSE)
                  ELSE FloatRound(x.neg, BigSub(xm, ym), e, FALSE)

\* math.ceil(x) as an int
MathCeil(x) ==
    IF x.m = <<>> THEN 0
    ELSE IF x.e >= 0
         THEN (IF x.neg THEN -1 ELSE 1) * BigToNat(BigShiftLeft(x.m, x.e))
         ELSE LET sh   == BigShiftRight(x.m, -x.e, FALSE, FALSE)
                  q    == BigToNat(sh.q)
                  frac == sh.guard \/ sh.sticky
              IN  IF x.neg THEN -q ELSE IF frac THEN q + 1 ELSE q

\* calculations.py:64-67 for int area, reserve_percent and unit_coverage # 0
ComputeUnitsNeeded(area, percent, unit_coverage) ==
    LET area_with_reserve ==
            FloatMulInt(area,
                FloatAdd(FloatFromInt(1),
                         FloatDivInt(FloatFromInt(percent), 100)))
    IN  MathCeil(FloatDivInt(area_with_reserve, unit_coverage))

(***************************************************************************)
(* models.py: the material classes.  A material is a record of the         *)
(* attributes the calculator reads, with its class in cls; the constructors *)
(* validate nothing.                                                       *)
(***************************************************************************)
Material(name, price_per_unit, unit_coverage) ==
    [cls |-> "Material", name |-> name,
     price_per_unit |-> price_per_unit, unit_coverage |-> unit_coverage]

Wallpaper(name, price_per_roll, roll_width, roll_length) ==
    [Material(name, price_per_roll, roll_width * roll_length)
        EXCEPT !.cls = "Wallpaper"]

Tile(name, price_per_box, tiles_per_box, tile_width, tile_height) ==
    [Material(name, price_per_box, (tile_width * tile_height) * tiles_per_box)
        EXCEPT !.cls = "Tile"]

Laminate(name, price_per_pack, planks_per_pack, plank_width, plank_length) ==
    [Material(name, price_per_pack,
              (plank_width * plank_length) * planks_per_pack)
        EXCEPT !.cls = "Laminate"]

\* isinstance(x, Material)
IsMaterial(x) == x.cls \in {"Material", "Wallpaper", "Tile", "Laminate"}

CalculationResult(material, area, units_needed, total_cost, percent) ==
    [material |-> material, area |-> area, units_needed |-> units_needed,
     total_cost |-> total_cost, reserve_percent |-> percent]

(***************************************************************************)
(* The values the caller passes.                                           *)
(***************************************************************************)
DefaultReservePercent == 10

cheap    == Material("cheap", 1, 1)
roll     == Wallpaper("roll", 5, 1, 5)
emptybox == Tile("emptybox", 1, 0, 1, 1)
plank    == Laminate("plank", 1, 1, 1, 1)
notmat   == [cls |-> "str", name |-> "tile"]

MaterialArgs == {cheap, roll, emptybox, notmat}
HistoryMaterialArgs == {plank}
HistoryAreaArgs == {50}
RoomMaterialArgs == {cheap, notmat}
LengthArgs == {0, 5}
WidthArgs == {-1, 10}
HeightArgs == {<<>>, <<1>>}
DoorAreaArgs == {0, 15}
WindowAreaArgs == {0, 15}
SurfaceTypeArgs == {"floor", "wall", "ceiling"}
PerimeterArgs == {0, 30}
WallHeightArgs == {0, 1}
WallDoorAreaArgs == {-1, 0, 15, 20}
WallWindowAreaArgs == {-1, 0, 15}
AreaArgs == {-5, 0, 50}
CtorReserveArgs == {DefaultReservePercent, -100}
SetterArgs == {-1, 0, 100, 101}

MaxResults == 3
MaxCopies == 1
MaxListLen == 2
MaxRoomResults == 1

\* The arithmetic of calculate, tabulated once over the numbers that can
\* reach it: the positive areas, the reserve percents and the coverages.
PositiveAreas ==
    AreaArgs \cup HistoryAreaArgs
    \cup {l * w : l \in LengthArgs, w \in WidthArgs}
    \cup {2 * (l + w) * h[1] - d - n :
             l \in LengthArgs, w \in WidthArgs, h \in HeightArgs \ {<<>>},
             d \in DoorAreaArgs, n \in WindowAreaArgs}

ReservePercents == CtorReserveArgs \cup SetterArgs

UnitCoverages ==
    {m.unit_coverage :
        m \in {x \in MaterialArgs \cup HistoryMaterialArgs
                       \cup RoomMaterialArgs : IsMaterial(x)}} \ {0}

UnitsNeededTable ==
    {<<a, r, c, ComputeUnitsNeeded(a, r, c)>> :
        a \in {x \in PositiveAreas : x > 0}, r \in ReservePercents,
        c \in UnitCoverages}

UnitsNeeded(area, percent, unit_coverage) ==
    (CHOOSE t \in UnitsNeededTable :
        t[1] = area /\ t[2] = percent /\ t[3] = unit_coverage)[4]

\* the lists compare_materials is called with
LifeMaterialArgs == {cheap, notmat}

LifeAreaArgs == {0, 50}

LifeCompareArgs == {<<>>, <<roll, cheap>>, <<cheap, notmat>>}

CompareArgs ==
    {<<>>, <<cheap>>, <<cheap, roll>>, <<roll, cheap>>, <<cheap, notmat>>,
     <<notmat, cheap>>, <<roll, emptybox>>, <<roll, cheap, roll>>,
     <<cheap, roll, notmat>>}

(***************************************************************************)
(* State.                                                                  *)
(*   room            TRUE when the program built a RoomCalculator, FALSE   *)
(*                   when it built a MaterialCalculator                    *)
(*   reserve_percent MaterialCalculator._reserve_percent                   *)
(*   results         the CalculationResult objects created so far; an      *)
(*                   object's identity is its index                        *)
(*   lists           the list objects: lists[HistoryId] is                 *)
(*                   MaterialCalculator._calculations_history, the others  *)
(*                   are the lists get_history handed to the caller        *)
(*   copies          the ids of the lists get_history returned, which the  *)
(*                   caller holds and may mutate                           *)
(*   ret             the last call: operation, arguments, outcome and the  *)
(*                   returned value (val is <<>> when nothing is returned) *)
(***************************************************************************)
VARIABLES room, reserve_percent, results, lists, copies, ret

vars == <<room, reserve_percent, results, lists, copies, ret>>

HistoryId == 1

history == lists[HistoryId]

\* the setter with both ends of the range excluded
set_reserve_percent_exclusive(rp, value) ==
    IF value <= 0 \/ value >= 100
    THEN [status |-> "ValueError", reserve_percent |-> rp]
    ELSE [status |-> "ok", reserve_percent |-> value]

\* MaterialCalculator.reserve_percent setter
set_reserve_percent(rp, value) ==
    IF value < 0 \/ value > 100
    THEN [status |-> "ValueError", reserve_percent |-> rp]
    ELSE [status |-> "ok", reserve_percent |-> value]

\* calculate, lines 70-79: the result object for units_needed units
NewResult(material, area, rp, units_needed) ==
    CalculationResult(material, area, units_needed,
                      units_needed * material.price_per_unit, rp)

\* calculate with results that read the calculator's reserve percent instead
\* of holding their own: the earlier results take the value now in force
calculate_restamping(rs, hist, rp, material, area) ==
    LET raise(e) == [status |-> e, results |-> rs, history |-> hist,
                     val |-> <<>>]
    IN  IF area <= 0 THEN raise("ValueError")
        ELSE IF ~IsMaterial(material) THEN raise("ValueError")
        ELSE IF material.unit_coverage = 0 THEN raise("ZeroDivisionError")
        ELSE [status |-> "ok",
              results |-> Append([i \in 1..Len(rs) |->
                                     [rs[i] EXCEPT !.reserve_percent = rp]],
                                 NewResult(material, area, rp,
                              UnitsNeeded(area, rp, material.unit_coverage))),
              history |-> Append(hist, Len(rs) + 1),
              val |-> <<Len(rs) + 1>>]

\* calculate putting the new result at the front of the history
calculate_prepending(rs, hist, rp, material, area) ==
    LET raise(e) == [status |-> e, results |-> rs, history |-> hist,
                     val |-> <<>>]
    IN  IF area <= 0 THEN raise("ValueError")
        ELSE IF ~IsMaterial(material) THEN raise("ValueError")
        ELSE IF material.unit_coverage = 0 THEN raise("ZeroDivisionError")
        ELSE [status |-> "ok",
              results |-> Append(rs, NewResult(material, area, rp,
                              UnitsNeeded(area, rp, material.unit_coverage))),
              history |-> <<Len(rs) + 1>> \o hist,
              val |-> <<Len(rs) + 1>>]

\* MaterialCalculator.calculate on result objects rs, history list hist and
\* reserve percent rp
calculate(rs, hist, rp, material, area) ==
    LET raise(e) == [status |-> e, results |-> rs, history |-> hist,
                     val |-> <<>>]
    IN  IF area <= 0 THEN raise("ValueError")
        ELSE IF ~IsMaterial(material) THEN raise("ValueError")
        ELSE IF material.unit_coverage = 0 THEN raise("ZeroDivisionError")
        ELSE [status |-> "ok",
              results |-> Append(rs, NewResult(material, area, rp,
                              UnitsNeeded(area, rp, material.unit_coverage))),
              history |-> Append(hist, Len(rs) + 1),
              val |-> <<Len(rs) + 1>>]

RECURSIVE InsertByCost(_, _, _)
\* sorted \o <<id>> with id moved left past every entry of greater cost
InsertByCost(rs, sorted, id) ==
    IF sorted = <<>> THEN <<id>>
    ELSE LET last == sorted[Len(sorted)]
         IN  IF rs[last].total_cost > rs[id].total_cost
             THEN Append(InsertByCost(rs, SubSeq(sorted, 1, Len(sorted) - 1),
                                      id), last)
             ELSE Append(sorted, id)

RECURSIVE SortByCost(_, _)
\* list.sort(key=lambda r: r.total_cost): stable, ascending
SortByCost(rs, ids) ==
    IF ids = <<>> THEN <<>>
    ELSE InsertByCost(rs, SortByCost(rs, SubSeq(ids, 1, Len(ids) - 1)),
                      ids[Len(ids)])

RECURSIVE CompareLoop(_, _, _, _, _, _, _)
RECURSIVE CompareStep(_, _, _, _, _, _)
\* the for loop of compare_materials from materials[i] on
CompareLoop(rs, hist, rp, materials, area, i, acc) ==
    IF i > Len(materials)
    THEN [status |-> "ok", results |-> rs, history |-> hist,
          val |-> SortByCost(rs, acc)]
    ELSE CompareStep(calculate(rs, hist, rp, materials[i], area),
                     rp, materials, area, i, acc)

\* the loop body after self.calculate ended as c: an exception leaves the
\* loop, a result is appended to results
CompareStep(c, rp, materials, area, i, acc) ==
    IF c.status # "ok" THEN c
    ELSE CompareLoop(c.results, c.history, rp, materials, area, i + 1,
                     acc \o c.val)

\* compare_materials as a pure comparison: the history is left as it was
compare_materials_unrecorded(rs, hist, rp, materials, area) ==
    IF materials = <<>>
    THEN [status |-> "ValueError", results |-> rs, history |-> hist,
          val |-> <<>>]
    ELSE [CompareLoop(rs, hist, rp, materials, area, 1, <<>>)
             EXCEPT !.history = hist]

\* MaterialCalculator.compare_materials
compare_materials(rs, hist, rp, materials, area) ==
    IF materials = <<>>
    THEN [status |-> "ValueError", results |-> rs, history |-> hist,
          val |-> <<>>]
    ELSE CompareLoop(rs, hist, rp, materials, area, 1, <<>>)

\* get_history returning the history list itself
get_history_alias(ls) == [lists |-> ls, val |-> <<HistoryId>>]

\* MaterialCalculator.get_history: the id the caller receives and the list
\* objects afterwards
get_history(ls) ==
    [lists |-> Append(ls, ls[HistoryId]), val |-> <<Len(ls) + 1>>]

\* MaterialCalculator.clear_history
clear_history(ls) == [ls EXCEPT ![HistoryId] = <<>>]

Init ==
    /\ room \in BOOLEAN
    /\ reserve_percent \in
           IF room THEN {DefaultReservePercent} ELSE CtorReserveArgs
    /\ results = <<>>
    /\ lists = << <<>> >>
    /\ copies = <<>>
    /\ ret = [op |-> "__init__", args |-> <<reserve_percent>>,
              status |-> "ok", val |-> <<>>]

SetReservePercent(value) ==
    /\ ~room
    /\ LET s == set_reserve_percent(reserve_percent, value)
       IN  /\ reserve_percent' = s.reserve_percent
           /\ ret' = [op |-> "reserve_percent", args |-> <<value>>,
                      status |-> s.status, val |-> <<>>]
    /\ UNCHANGED <<room, results, lists, copies>>

\* the state after a call that ended as c
Return(op, args, c) ==
    /\ results' = c.results
    /\ lists' = [lists EXCEPT ![HistoryId] = c.history]
    /\ ret' = [op |-> op, args |-> args, status |-> c.status, val |-> c.val]
    /\ UNCHANGED <<room, reserve_percent, copies>>

Calculate(material, area) ==
    /\ ~room
    /\ Len(results) < MaxResults
    /\ Return("calculate", <<material, area>>,
              calculate(results, history, reserve_percent, material, area))

CompareMaterials(materials, area) ==
    /\ ~room
    /\ Len(results) + Len(materials) <= MaxResults
    /\ Return("compare_materials", <<materials, area>>,
              compare_materials(results, history, reserve_percent,
                                materials, area))

GetHistory ==
    /\ ~room
    /\ Len(copies) < MaxCopies
    /\ LET g == get_history(lists)
       IN  /\ lists' = g.lists
           /\ copies' = copies \o g.val
           /\ ret' = [op |-> "get_history", args |-> <<>>,
                      status |-> "ok", val |-> g.val]
    /\ UNCHANGED <<room, reserve_percent, results>>

ClearHistory ==
    /\ ~room
    /\ lists' = clear_history(lists)
    /\ ret' = [op |-> "clear_history", args |-> <<>>, status |-> "ok",
               val |-> <<>>]
    /\ UNCHANGED <<room, reserve_percent, results, copies>>

(***************************************************************************)
(* What the caller does to a list it received from get_history.            *)
(***************************************************************************)
RECURSIVE RemoveFirst(_, _)
\* list.remove(x) for x in the list
RemoveFirst(l, x) ==
    IF l = <<>> THEN <<>>
    ELSE IF Head(l) = x THEN Tail(l)
    ELSE <<Head(l)>> \o RemoveFirst(Tail(l), x)

InList(l, x) == \E i \in 1..Len(l) : l[i] = x

ListAppend(k, x) ==
    /\ Len(lists[copies[k]]) < MaxListLen
    /\ lists' = [lists EXCEPT ![copies[k]] = Append(@, x)]
    /\ ret' = [op |-> "list.append", args |-> <<copies[k], x>>,
               status |-> "ok", val |-> <<>>]
    /\ UNCHANGED <<room, reserve_percent, results, copies>>

ListRemove(k, x) ==
    /\ InList(lists[copies[k]], x)
    /\ lists' = [lists EXCEPT ![copies[k]] = RemoveFirst(@, x)]
    /\ ret' = [op |-> "list.remove", args |-> <<copies[k], x>>,
               status |-> "ok", val |-> <<>>]
    /\ UNCHANGED <<room, reserve_percent, results, copies>>

ListClear(k) ==
    /\ lists' = [lists EXCEPT ![copies[k]] = <<>>]
    /\ ret' = [op |-> "list.clear", args |-> <<copies[k]>>,
               status |-> "ok", val |-> <<>>]
    /\ UNCHANGED <<room, reserve_percent, results, copies>>

(***************************************************************************)
(* RoomCalculator.                                                         *)
(***************************************************************************)
calculate_floor_area(length, width) ==
    IF length <= 0 \/ width <= 0
    THEN [status |-> "ValueError", val |-> <<>>]
    ELSE [status |-> "ok", val |-> <<length * width>>]

\* calculate_wall_area accepting a wall the openings use up
calculate_wall_area_nonnegative(perimeter, height, door_area, window_area) ==
    IF perimeter <= 0 \/ height <= 0
    THEN [status |-> "ValueError", val |-> <<>>]
    ELSE IF door_area < 0 \/ window_area < 0
    THEN [status |-> "ValueError", val |-> <<>>]
    ELSE IF perimeter * height - door_area - window_area < 0
    THEN [status |-> "ValueError", val |-> <<>>]
    ELSE [status |-> "ok",
          val |-> <<perimeter * height - door_area - window_area>>]

calculate_wall_area(perimeter, height, door_area, window_area) ==
    IF perimeter <= 0 \/ height <= 0
    THEN [status |-> "ValueError", val |-> <<>>]
    ELSE IF door_area < 0 \/ window_area < 0
    THEN [status |-> "ValueError", val |-> <<>>]
    ELSE LET total_wall_area == perimeter * height
             result_area == total_wall_area - door_area - window_area
         IN  IF result_area <= 0
             THEN [status |-> "ValueError", val |-> <<>>]
             ELSE [status |-> "ok", val |-> <<result_area>>]

\* calculate_materials_for_room leaving the doors out of the wall area
calculate_materials_for_room_no_door(rs, hist, rp, material, length, width, height, door_area, window_area, surface_type) ==
    LET area == IF surface_type = "floor"
                THEN calculate_floor_area(length, width)
                ELSE IF surface_type = "wall"
                THEN IF height = <<>>
                     THEN [status |-> "ValueError", val |-> <<>>]
                     ELSE calculate_wall_area(2 * (length + width), height[1],
                                              0, window_area)
                ELSE [status |-> "ValueError", val |-> <<>>]
    IN  IF area.status # "ok"
        THEN [status |-> area.status, results |-> rs, history |-> hist,
              val |-> <<>>]
        ELSE calculate(rs, hist, rp, material, area.val[1])

\* height is <<>> for None and <<h>> for the number h
calculate_materials_for_room(rs, hist, rp, material, length, width, height, door_area, window_area, surface_type) ==
    LET raise(e) == [status |-> e, results |-> rs, history |-> hist,
                     val |-> <<>>]
        area == IF surface_type = "floor"
                THEN calculate_floor_area(length, width)
                ELSE IF surface_type = "wall"
                THEN IF height = <<>>
                     THEN [status |-> "ValueError", val |-> <<>>]
                     ELSE calculate_wall_area(2 * (length + width), height[1],
                                              door_area, window_area)
                ELSE [status |-> "ValueError", val |-> <<>>]
    IN  IF area.status # "ok" THEN raise(area.status)
        ELSE calculate(rs, hist, rp, material, area.val[1])

RoomSetReservePercent(value) ==
    /\ room
    /\ LET s == set_reserve_percent(reserve_percent, value)
       IN  /\ reserve_percent' = s.reserve_percent
           /\ ret' = [op |-> "room.reserve_percent", args |-> <<value>>,
                      status |-> s.status, val |-> <<>>]
    /\ UNCHANGED <<room, results, lists, copies>>

CalculateFloorArea(length, width) ==
    /\ room
    /\ LET a == calculate_floor_area(length, width)
       IN  ret' = [op |-> "calculate_floor_area", args |-> <<length, width>>,
                   status |-> a.status, val |-> a.val]
    /\ UNCHANGED <<room, reserve_percent, results, lists, copies>>

CalculateWallArea(perimeter, height, door_area, window_area) ==
    /\ room
    /\ LET a == calculate_wall_area(perimeter, height, door_area, window_area)
       IN  ret' = [op |-> "calculate_wall_area",
                   args |-> <<perimeter, height, door_area, window_area>>,
                   status |-> a.status, val |-> a.val]
    /\ UNCHANGED <<room, reserve_percent, results, lists, copies>>

CalculateMaterialsForRoom(material, length, width, height, door_area, window_area, surface_type) ==
    /\ room
    /\ Len(results) < MaxRoomResults
    /\ Return("calculate_materials_for_room",
              <<material, length, width, height, door_area, window_area,
                surface_type>>,
              calculate_materials_for_room(results, history, reserve_percent,
                  material, length, width, height, door_area, window_area,
                  surface_type))

(***************************************************************************)
(* Spec: a program that builds a MaterialCalculator or a RoomCalculator,   *)
(* sets the reserve percent and, on the MaterialCalculator, calculates,    *)
(* compares and clears in any order.                                       *)
(***************************************************************************)
Next ==
    \/ \E value \in SetterArgs : SetReservePercent(value)
    \/ \E material \in MaterialArgs, area \in AreaArgs :
           Calculate(material, area)
    \/ \E materials \in CompareArgs, area \in AreaArgs :
           CompareMaterials(materials, area)
    \/ ClearHistory
    \/ \E value \in SetterArgs : RoomSetReservePercent(value)

Spec == Init /\ [][Next]_vars

(***************************************************************************)
(* RoomSpec: a program that builds a RoomCalculator and calls its          *)
(* operations in any order.                                                *)
(***************************************************************************)
RoomInit == Init /\ room

RoomNext ==
    \/ \E value \in SetterArgs : RoomSetReservePercent(value)
    \/ \E length \in LengthArgs, width \in WidthArgs :
           CalculateFloorArea(length, width)
    \/ \E perimeter \in PerimeterArgs, height \in WallHeightArgs,
          door_area \in WallDoorAreaArgs, window_area \in WallWindowAreaArgs :
           CalculateWallArea(perimeter, height, door_area, window_area)
    \/ \E material \in RoomMaterialArgs, length \in LengthArgs,
          width \in WidthArgs, height \in HeightArgs,
          door_area \in DoorAreaArgs, window_area \in WindowAreaArgs,
          surface_type \in SurfaceTypeArgs :
           CalculateMaterialsForRoom(material, length, width, height,
                                     door_area, window_area, surface_type)

RoomSpec == RoomInit /\ [][RoomNext]_vars

(***************************************************************************)
(* HistorySpec: a program that builds a MaterialCalculator, calculates,    *)
(* reads the history and mutates the lists it was given.                   *)
(***************************************************************************)
HistoryInit == Init /\ ~room

HistoryNext ==
    \/ \E material \in HistoryMaterialArgs, area \in HistoryAreaArgs :
           Calculate(material, area)
    \/ GetHistory
    \/ ClearHistory
    \/ \E k \in 1..Len(copies), x \in 1..Len(results) : ListAppend(k, x)
    \/ \E k \in 1..Len(copies), x \in 1..Len(results) : ListRemove(k, x)
    \/ \E k \in 1..Len(copies) : ListClear(k)

HistorySpec == HistoryInit /\ [][HistoryNext]_vars

(***************************************************************************)
(* Properties.                                                             *)
(***************************************************************************)
\* the call described by ret
Called(op) == ret.op = op

Succeeded(op) == ret.op = op /\ ret.status = "ok"

\* n = ceil(num / den) over the rationals, for den > 0
IsCeil(n, num, den) == n * den >= num /\ (n - 1) * den < num

\* C1: for a material of coverage c > 0, an area a > 0 and the current
\* reserve percent r, calculate returns units_needed = ceil(a*(1+r/100)/c),
\* total_cost = units_needed * price_per_unit, area = a, material = m and
\* reserve_percent = r.
C1_UnitsAndCostExact ==
    (Succeeded("calculate") /\ ret.args[1].unit_coverage > 0) =>
        LET m == ret.args[1]
            a == ret.args[2]
            r == results[ret.val[1]]
        IN  /\ IsCeil(r.units_needed, a * (100 + reserve_percent),
                      100 * m.unit_coverage)
            /\ r.total_cost = r.units_needed * m.price_per_unit
            /\ r.area = a
            /\ r.material = m
            /\ r.reserve_percent = reserve_percent

\* C2: every CalculationResult created has units_needed >= 1 and
\* total_cost >= 0, whatever the calculator and the material were built with.
C2_PositiveUnitsNonNegativeCost ==
    \A i \in 1..Len(results) :
        results[i].units_needed >= 1 /\ results[i].total_cost >= 0

\* C3: calculate raises ValueError and returns nothing when area <= 0 or
\* material is not a Material, and succeeds for every Material and area > 0.
C3_CalculateFailsExactlyOnBadArguments ==
    Called("calculate") =>
        IF ret.args[2] <= 0 \/ ~IsMaterial(ret.args[1])
        THEN ret.status = "ValueError" /\ ret.val = <<>>
        ELSE ret.status = "ok" /\ Len(ret.val) = 1

\* C4: setting reserve_percent, on either calculator, to v < 0 or v > 100
\* raises ValueError and keeps the previous value; for v in [0, 100], the
\* bounds included, it succeeds and the value read back is v.
C4_SetterValidatesRange ==
    [][ret'.op \in {"reserve_percent", "room.reserve_percent"} =>
          IF ret'.args[1] < 0 \/ ret'.args[1] > 100
          THEN ret'.status = "ValueError" /\ reserve_percent' = reserve_percent
          ELSE ret'.status = "ok" /\ reserve_percent' = ret'.args[1]]_vars

\* the upper bound was accepted and a later value out of range left it alone
C4_Witness ==
    /\ Called("reserve_percent")
    /\ ret.args[1] = 101
    /\ ret.status = "ValueError"
    /\ reserve_percent = 100

\* C5: compare_materials, for every non-empty list of materials and every
\* area > 0, returns one result per input material, in non-decreasing
\* total_cost, results of equal cost in the order of their materials in the
\* input.
C5_CompareSortedStable ==
    (/\ Called("compare_materials")
     /\ ret.args[1] # <<>>
     /\ ret.args[2] > 0
     /\ \A i \in 1..Len(ret.args[1]) : IsMaterial(ret.args[1][i])) =>
        LET materials == ret.args[1]
            n == Len(materials)
            first == Len(results) - n
            cost(j) == results[ret.val[j]].total_cost
        IN  /\ ret.status = "ok"
            /\ Len(ret.val) = n
            /\ \A i \in 1..n :
                  /\ results[first + i].material = materials[i]
                  /\ Cardinality({j \in 1..n : ret.val[j] = first + i}) = 1
            /\ \A j, k \in 1..n :
                  j < k =>
                    /\ cost(j) <= cost(k)
                    /\ cost(j) = cost(k) => ret.val[j] < ret.val[k]

\* C6: the list get_history returns is a copy: mutating it never changes the
\* calculator's history, a copy taken earlier is unaffected by later
\* calculate and clear_history calls, and get_history after clear_history
\* returns an empty list.
C6_HistoryCopyIsDefensive ==
    [][/\ ret'.op \in {"list.append", "list.remove", "list.clear"} =>
             lists'[HistoryId] = lists[HistoryId]
       /\ ret'.op \in {"calculate", "clear_history"} =>
             \A k \in 1..Len(copies) : lists'[copies[k]] = lists[copies[k]]
       /\ ret'.op = "get_history" =>
             /\ lists'[ret'.val[1]] = lists[HistoryId]
             /\ lists'[HistoryId] = lists[HistoryId]
             /\ ret.op = "clear_history" => lists'[ret'.val[1]] = <<>>]_vars

\* the history was cleared while the caller held a non-empty copy
C6_Witness ==
    /\ Called("clear_history")
    /\ Len(copies) >= 1
    /\ lists[copies[1]] # <<>>
    /\ history = <<>>

\* C7: a call that raises ValueError leaves history and reserve_percent as
\* they were before the call.
C7_FailureLeavesStateUnchanged ==
    [][ret'.status = "ValueError" =>
          /\ lists'[HistoryId] = lists[HistoryId]
          /\ reserve_percent' = reserve_percent]_vars

\* C8: compare_materials raises ValueError on an empty list and leaves the
\* history unchanged; on success with n materials it appends n results to
\* the history, one per material in input order, and returns those same
\* result objects.
C8_CompareExtendsHistoryInInputOrder ==
    [][ret'.op = "compare_materials" =>
          LET materials == ret'.args[1]
              n == Len(materials)
              old == Len(results)
          IN  /\ materials = <<>> =>
                    /\ ret'.status = "ValueError"
                    /\ lists'[HistoryId] = lists[HistoryId]
              /\ ret'.status = "ok" =>
                    /\ Len(results') = old + n
                    /\ \A i \in 1..old : results'[i] = results[i]
                    /\ Len(lists'[HistoryId]) = Len(lists[HistoryId]) + n
                    /\ \A i \in 1..Len(lists[HistoryId]) :
                          lists'[HistoryId][i] = lists[HistoryId][i]
                    /\ \A i \in 1..n :
                          /\ lists'[HistoryId][Len(lists[HistoryId]) + i]
                                = old + i
                          /\ results'[old + i].material = materials[i]
                    /\ {ret'.val[j] : j \in 1..Len(ret'.val)}
                          = {old + i : i \in 1..n}]_vars

\* a comparison on a calculator with earlier history whose sorted result is
\* not in the order of the history
C8_Witness ==
    /\ Succeeded("compare_materials")
    /\ Len(ret.args[1]) >= 2
    /\ Len(history) > Len(ret.args[1])
    /\ ret.val # SubSeq(history, Len(history) - Len(ret.args[1]) + 1,
                        Len(history))

DerivedArea(length, width, height, door_area, window_area, surface_type) ==
    IF surface_type = "floor"
    THEN IF length > 0 /\ width > 0 THEN <<length * width>> ELSE <<>>
    ELSE IF surface_type = "wall"
    THEN IF /\ height # <<>>
            /\ 2 * (length + width) > 0
            /\ height[1] > 0
            /\ door_area >= 0
            /\ window_area >= 0
            /\ 2 * (length + width) * height[1] - door_area - window_area > 0
         THEN <<2 * (length + width) * height[1] - door_area - window_area>>
         ELSE <<>>
    ELSE <<>>

\* what calculate_materials_for_room is to do when calculate, called with
\* the derived area, ends as c
DelegatesTo(c) ==
    /\ ret'.status = c.status
    /\ ret'.val = c.val
    /\ results' = c.results
    /\ lists'[HistoryId] = c.history

\* C10: calculate_materials_for_room takes length*width for "floor" (failing
\* if length <= 0 or width <= 0, whatever the height and openings), the wall
\* area of perimeter 2*(length+width) for "wall" (failing without a height),
\* fails for any other surface_type, and otherwise does what calculate does
\* for the material and that area under the current reserve_percent.
C10_RoomDispatch ==
    [][ret'.op = "calculate_materials_for_room" =>
          LET a == ret'.args
              area == DerivedArea(a[2], a[3], a[4], a[5], a[6], a[7])
          IN  IF area = <<>>
              THEN /\ ret'.status = "ValueError"
                   /\ results' = results
                   /\ lists' = lists
              ELSE DelegatesTo(calculate(results, history, reserve_percent,
                                         a[1], area[1]))]_vars

\* a wall calculation with a door: 2 * (5 + 10) * 1 - 15
C10_Witness ==
    /\ Succeeded("calculate_materials_for_room")
    /\ ret.args[7] = "wall"
    /\ ret.args[5] = 15
    /\ results[ret.val[1]].area = 15

\* C11: in every reachable state, whatever reserve_percent the calculator was
\* constructed with, reserve_percent is in [0, 100], and so is the
\* reserve_percent of every result in the history.
C11_ReserveAlwaysInRange ==
    /\ reserve_percent >= 0
    /\ reserve_percent <= 100
    /\ \A i \in 1..Len(history) :
          /\ results[history[i]].reserve_percent >= 0
          /\ results[history[i]].reserve_percent <= 100

\* a MaterialCalculator over its lifetime: calculations, comparisons,
\* reserve changes, history reads and clears
LifeInit == Init /\ ~room

LifeNext ==
    \/ \E value \in SetterArgs : SetReservePercent(value)
    \/ \E material \in LifeMaterialArgs, area \in LifeAreaArgs :
          Calculate(material, area)
    \/ \E materials \in LifeCompareArgs, area \in LifeAreaArgs :
          CompareMaterials(materials, area)
    \/ GetHistory
    \/ ClearHistory

LifeSpec == LifeInit /\ [][LifeNext]_vars

\* s is the beginning of t
IsPrefix(s, t) == Len(s) <= Len(t) /\ SubSeq(t, 1, Len(s)) = s

\* C12: a new calculator has an empty history; each successful calculate
\* appends exactly the returned result at the end of the history and leaves
\* the earlier entries and their order alone; the reserve_percent setter and
\* get_history never change the history; only clear_history shortens it,
\* and it empties it.
C12_HistoryAppendOnly ==
    [][/\ ret.op = "__init__" => history = <<>>
       /\ (ret'.op = "calculate" /\ ret'.status = "ok") =>
             /\ lists'[HistoryId] = Append(history, ret'.val[1])
             /\ ret'.val[1] = Len(results) + 1
       /\ ret'.op \in {"reserve_percent", "get_history"} =>
             lists'[HistoryId] = history
       /\ ret'.op = "clear_history" => lists'[HistoryId] = <<>>
       /\ ret'.op # "clear_history" => IsPrefix(history, lists'[HistoryId])]_vars

\* a successful calculate on a calculator that already had history, read
\* earlier through get_history
C12_Witness ==
    /\ Succeeded("calculate")
    /\ Len(history) >= 2
    /\ Len(copies) >= 1
    /\ results[ret.val[1]].reserve_percent # results[history[1]].reserve_percent

\* C13: a CalculationResult never changes once calculate has returned it:
\* no reserve change, later calculate or compare_materials call or
\* clear_history alters its material, area, units_needed, total_cost or
\* reserve_percent, which stays the value in force when it was calculated.
C13_ResultsImmutable ==
    [][/\ Len(results') >= Len(results)
       /\ \A i \in 1..Len(results) : results'[i] = results[i]
       /\ \A i \in (Len(results) + 1)..Len(results') :
             results'[i].reserve_percent = reserve_percent]_vars

\* the history was cleared while two results calculated under different
\* reserve percents exist, one of them not the current one
C13_Witness ==
    /\ Called("clear_history")
    /\ \E i, j \in 1..Len(results) :
          /\ results[i].reserve_percent # results[j].reserve_percent
          /\ results[i].reserve_percent # reserve_percent

====
